---- MODULE Spec2Model ----
(***************************************************************************)
(* State-machine model of easyaudit/protocols.py: the SFTP call            *)
(* instrumentor ServiceSFTPClient (connect / is_valid_path / upload /      *)
(* close) over an external SFTP transport whose every step may raise       *)
(* (Spec), the HTTP instrumentor ServiceHTTPClient.request (SpecHTTP), and *)
(* two callers sharing one SFTP instance without a lock (SpecConc).        *)
(*                                                                         *)
(* Python values are modelled as follows.  Strings are TLA+ strings and    *)
(* f-strings are concatenations.  None is the distinguished value None.    *)
(* A channel is the number of the transport session it was opened over,    *)
(* and 0 stands for "no channel" (self.channel is None).  An exception     *)
(* object is modelled by its description str(e).                           *)
(***************************************************************************)
EXTENDS Integers, Sequences, FiniteSets, TLC

VARIABLES
    channel,      \* self.channel: 0 (None) or the cached channel
    log_payload,  \* self.log_payload: the one audit payload of the instance
    sink,         \* audit records created through __create_log
    cur,          \* transport: the session self.client holds, 0 if none
    live,         \* transport: sessions opened and not yet released
    closed,       \* transport: channels on which close() has been called
    nConnects,    \* transport: number of client.connect calls issued so far
    last,         \* the most recent call on the instance and its outcome
    prev,         \* the call before it
    http,         \* ServiceHTTPClient: the instance and its most recent request
    pc,           \* concurrent callers: where each caller stands in its call
    loc           \* concurrent callers: the arguments and locals of each call

vars == <<channel, log_payload, sink, cur, live, closed, nConnects, last,
          prev, http, pc, loc>>

\* the variables that only the HTTP client or the concurrent callers change
others == <<http, pc, loc>>

----------------------------------------------------------------------------
(* Bounds of the model *)

\* cap on the transport connects one behaviour issues
MaxConnects == 2

\* largest elapsed time (clock ticks) a call can measure
MaxElapsed == 1

\* inputs the calls are tried with
Paths == {"/data/", "/in"}
Filenames == {"a.txt", "b"}
Contents == {"hello"}
ExcDescs == {"boom"}

----------------------------------------------------------------------------
(* Python values *)

None == "<None>"

\* str(x) for x a string or None
PyStr(x) == IF x = None THEN "None" ELSE x

\* truthiness of a string-or-None value
Truthy(x) == x # None /\ x # ""

\* outcome of a transport step: None (it returned) or the description of the
\* exception it raised
Outcomes == {None} \cup ExcDescs

----------------------------------------------------------------------------
(* Module constants and construction *)

PROTOCOLS == <<"http", "sftp">>
OPERATIONS == <<"upload", "download">>

\* constructor arguments of the instance under study
Host == "sftp.example.org"
ServiceName == "partner"

\* values of response_repr: the initial "" and the dict {"message": m}
StrRepr(s) == [type |-> "str", message |-> s]
DictRepr(m) == [type |-> "dict", message |-> m]

InitPayload ==
    [service_name |-> ServiceName,
     protocol |-> PROTOCOLS[2],
     request_repr |-> [host |-> Host, operation |-> None,
                       remote_path |-> "", filename |-> ""],
     response_repr |-> StrRepr(""),
     error_message |-> "",
     execution_time |-> 0]

\* __create_log is commented out: the class has no such attribute
HasCreateLog == FALSE

----------------------------------------------------------------------------
(* The record kept of the most recent call *)

\* a transport call: <<name, argument, None or the exception description>>
Call(name, arg, exc) == <<name, arg, exc>>

NoCall ==
    [op |-> "init", path |-> "", filename |-> "", content |-> "",
     raised |-> None, chan |-> 0, err |-> None, valid |-> FALSE,
     result |-> "", calls |-> <<>>]

----------------------------------------------------------------------------
\* the SFTP instance after construction
InitSFTP ==
    /\ channel = 0
    /\ log_payload = InitPayload
    /\ sink = <<>>
    /\ cur = 0
    /\ live = {}
    /\ closed = {}
    /\ nConnects = 0
    /\ last = NoCall
    /\ prev = NoCall

----------------------------------------------------------------------------
(* ServiceHTTPClient: values *)

\* inputs the requests are tried with
ServiceNames == {"default", "billing"}
Methods == {"GET", "POST"}
Urls == {"https://api.example.org/a", "https://api.example.org/b"}
StatusCodes == {200, 500}
\* decoded response bodies, as str() prints them
Bodies == {"{'ok': True}"}
\* descriptions str(e) of the exceptions the transport or the decoding raise
HttpExcDescs == {"timeout", ""}
HttpOutcomes == {None} \cup HttpExcDescs

\* a key the payload dict does not hold
Absent == "<absent>"

\* the response object of the transport; `response = None` is NoResponse
Response(status) == [present |-> TRUE, status_code |-> status]
NoResponse == [present |-> FALSE, status_code |-> 0]

\* str(request_repr), with the default (empty) headers and data
RequestReprStr(method, url) ==
    "{'endpoint': '" \o url \o "', 'method': '" \o method
        \o "', 'headers': {}, 'body': {}}"

\* str(response_repr)
ResponseReprStr(status, body) ==
    "{'status_code': " \o ToString(status) \o ", 'body': " \o body \o "}"

\* the HTTP instance after construction: no request made yet
NoRequest(service_name) ==
    [service_name |-> service_name, op |-> "init", method |-> "", url |-> "",
     sendExc |-> None, jsonExc |-> None, raised |-> None,
     ret |-> NoResponse,
     payload |-> [service_name |-> Absent, protocol |-> Absent,
                  request_repr |-> Absent, execution_time |-> 0,
                  error_message |-> Absent, response_repr |-> Absent]]

----------------------------------------------------------------------------
(* Concurrent callers of one SFTP instance: values *)

Callers == {"A", "B"}

\* the upload each caller makes
UploadArgs ==
    [A |-> [path |-> "/data/", filename |-> "a.txt"],
     B |-> [path |-> "/in", filename |-> "b"]]

\* The locals of a caller that is in no call:
\*   result  the local `result` of upload
\*   error   the local `error` of upload, the reason is_valid_path returned
\*   exc     the exception the running statement has raised
\*   ch      the value of self.channel a statement has read and is about to
\*           call a method of
\*   final   the payload of the instance as it stood when upload returned
\*   sess    the session the client.connect of the running connect created
\*   opened  the channel its client.open_sftp returned, before it is stored
\*   chan    the channel connect returned (0: None)
\*   overlap history of the call, not a local of the code: whether the other
\*           caller has been inside a call at any moment of this call
NoLocals ==
    [result |-> "", error |-> None, exc |-> None, ch |-> 0,
     final |-> InitPayload, sess |-> 0, opened |-> 0, chan |-> 0,
     overlap |-> FALSE]

\* the caller is inside a call: it has executed a statement of connect or
\* upload and has not executed its return
InCall(label) == label \notin {"idle", "u_done", "c_done"}

\* The locals when caller c enters a call: c starts from fresh locals, and
\* the calls in progress are noted as overlapping with it
EnterCall(c) ==
    [d \in Callers |->
        IF d = c
        THEN [NoLocals EXCEPT
                 !.overlap = \E e \in Callers \ {c} : InCall(pc[e])]
        ELSE IF InCall(pc[d]) THEN [loc[d] EXCEPT !.overlap = TRUE]
        ELSE loc[d]]

InitCallers ==
    /\ pc = [c \in Callers |-> "idle"]
    /\ loc = [c \in Callers |-> NoLocals]

----------------------------------------------------------------------------
Init ==
    /\ InitSFTP
    /\ http = NoRequest("default")
    /\ InitCallers

----------------------------------------------------------------------------
(* ServiceHTTPClient.request *)

\* The try statement of request(): the transport call, then the decoding
\* of the body while response_repr is built.
\*   response  the local `response` afterwards
\*   error     the local `error` afterwards: None, or str(e)
\*   bound     whether the local `response_repr` was assigned
\*   repr      str(response_repr) when it was
RequestTry(sendExc, status, jsonExc, body) ==
    IF sendExc # None
    THEN [response |-> NoResponse, error |-> sendExc, bound |-> FALSE,
          repr |-> Absent]
    ELSE IF jsonExc # None
    THEN [response |-> Response(status), error |-> jsonExc, bound |-> FALSE,
          repr |-> Absent]
    ELSE [response |-> Response(status), error |-> None, bound |-> TRUE,
          repr |-> ResponseReprStr(status, body)]

\* `if error:` is a truthiness test: an exception whose description is
\* empty leaves error == "" and takes the else branch
ErrorBranch(error) == Truthy(error)

request(method, url, sendExc, status, jsonExc, body, elapsed) ==
    LET t == RequestTry(sendExc, status, jsonExc, body)
        base == [service_name |-> http.service_name,
                 protocol |-> PROTOCOLS[1],
                 request_repr |-> RequestReprStr(method, url),
                 execution_time |-> elapsed,
                 error_message |-> Absent, response_repr |-> Absent]
        call == [http EXCEPT !.op = "request", !.method = method,
                             !.url = url, !.sendExc = sendExc,
                             !.jsonExc = IF sendExc = None THEN jsonExc
                                                          ELSE None]
    IN  /\ http' =
              IF ErrorBranch(t.error)
              THEN [call EXCEPT !.raised = None, !.ret = t.response,
                        !.payload = [base EXCEPT !.error_message = t.error]]
              ELSE IF t.bound
              THEN [call EXCEPT !.raised = None, !.ret = t.response,
                        !.payload = [base EXCEPT !.response_repr = t.repr]]
              \* str(response_repr) reads a local that was never assigned
              ELSE [call EXCEPT !.raised = "UnboundLocalError",
                        !.ret = NoResponse, !.payload = base]
        \* the creation of the ExternalServiceLog row is commented out
        /\ UNCHANGED <<channel, log_payload, sink, cur, live, closed,
                       nConnects, last, prev, pc, loc>>

----------------------------------------------------------------------------
(* connect *)

\* mutants of the test: the cached channel is never, or always, seen
ChannelCached_Never(ch) == FALSE
ChannelCached_Always(ch) == TRUE

\* `if self.channel` / `if not self.channel`: a channel object is truthy,
\* None is not
ChannelCached(ch) == ch # 0

\* error_message = f"SFTP connection failed. Error: {str(e)}"
ConnectionFailedMessage(e) == "SFTP connection failed. Error: " \o PyStr(e)

\* The try block of connect(): the transport steps it takes from the cached
\* channel ch, given the outcomes of client.connect and client.open_sftp.
\*   exc   the exception that reaches the except clause, None if none
\*   chan  self.channel afterwards
\*   sess  the session client.connect created, 0 if none
ConnectTry(ch, connExc, sftpExc) ==
    IF ChannelCached(ch)
    THEN [exc |-> None, chan |-> ch, sess |-> 0, calls |-> <<>>]
    ELSE IF connExc # None
    THEN [exc |-> connExc, chan |-> ch, sess |-> 0,
          calls |-> <<Call("connect", Host, connExc)>>]
    ELSE IF sftpExc # None
    THEN [exc |-> sftpExc, chan |-> ch, sess |-> nConnects + 1,
          calls |-> <<Call("connect", Host, None),
                      Call("open_sftp", "", sftpExc)>>]
    ELSE [exc |-> None, chan |-> nConnects + 1, sess |-> nConnects + 1,
          calls |-> <<Call("connect", Host, None),
                      Call("open_sftp", "", None)>>]

connect(connExc, sftpExc) ==
    LET t == ConnectTry(channel, connExc, sftpExc)
        issued == t.calls # <<>>
        payload == [log_payload EXCEPT
                        !.error_message = ConnectionFailedMessage(t.exc)]
    IN  /\ issued => nConnects < MaxConnects
        /\ UNCHANGED others
        /\ prev' = last
        /\ channel' = t.chan
        /\ nConnects' = IF issued THEN nConnects + 1 ELSE nConnects
        \* a session the client already held is not released by a new connect
        /\ cur' = IF t.sess # 0 THEN t.sess ELSE cur
        /\ live' = IF t.sess # 0 THEN live \cup {t.sess} ELSE live
        /\ closed' = closed
        /\ IF t.exc = None
           THEN /\ log_payload' = log_payload
                /\ sink' = sink
                /\ last' = [NoCall EXCEPT !.op = "connect", !.chan = t.chan,
                                          !.err = None, !.calls = t.calls]
           ELSE /\ log_payload' = payload
                /\ IF HasCreateLog
                   THEN /\ sink' = Append(sink, payload)
                        /\ last' = [NoCall EXCEPT !.op = "connect",
                                        !.chan = 0, !.err = t.exc,
                                        !.calls = t.calls]
                   ELSE \* self.__create_log() raises AttributeError inside
                        \* the except clause; `return None, e` is not reached
                        /\ sink' = sink
                        /\ last' = [NoCall EXCEPT !.op = "connect",
                                        !.raised = "AttributeError",
                                        !.calls = t.calls]

----------------------------------------------------------------------------
(* is_valid_path *)

\* mutant: a failed listing reported with the reason of a missing connection
FolderNotFound_AsNoConnection(path) == "Connection not established"

FolderNotFound(path) == "Folder(" \o path \o ") not found."
ConnectionNotEstablished == "Connection not established"

\* mutant: an exception of the listing is not caught as "not found"
ValidPath_ListingErrorIgnored(ch, path, listExc) ==
    IF ch # 0
    THEN [valid |-> TRUE, reason |-> None,
          calls |-> <<Call("listdir", path, listExc)>>]
    ELSE [valid |-> FALSE, reason |-> ConnectionNotEstablished,
          calls |-> <<>>]

\* is_valid_path as a function of the cached channel and of the listing's
\* outcome: the pair it returns and the transport calls it makes
ValidPath(ch, path, listExc) ==
    IF ChannelCached(ch)
    THEN IF listExc = None
         THEN [valid |-> TRUE, reason |-> None,
               calls |-> <<Call("listdir", path, None)>>]
         ELSE [valid |-> FALSE, reason |-> FolderNotFound(path),
               calls |-> <<Call("listdir", path, listExc)>>]
    ELSE [valid |-> FALSE, reason |-> ConnectionNotEstablished,
          calls |-> <<>>]

\* mutant: the reason of a failed validation is stored in the audit payload
is_valid_path_RecordsReason(path, listExc) ==
    LET v == ValidPath(channel, path, listExc)
    IN  /\ prev' = last
        /\ last' = [NoCall EXCEPT !.op = "is_valid_path", !.path = path,
                                  !.valid = v.valid, !.err = v.reason,
                                  !.calls = v.calls]
        /\ log_payload' = IF v.valid THEN log_payload
                          ELSE [log_payload EXCEPT !.error_message = v.reason]
        /\ UNCHANGED <<channel, sink, cur, live, closed, nConnects>>
        /\ UNCHANGED others

is_valid_path(path, listExc) ==
    LET v == ValidPath(channel, path, listExc)
    IN  /\ prev' = last
        /\ last' = [NoCall EXCEPT !.op = "is_valid_path", !.path = path,
                                  !.valid = v.valid, !.err = v.reason,
                                  !.calls = v.calls]
        /\ UNCHANGED <<channel, log_payload, sink, cur, live, closed,
                       nConnects>>
        /\ UNCHANGED others

----------------------------------------------------------------------------
(* close *)

close ==
    /\ prev' = last
    /\ channel' = channel
    /\ closed' = IF ChannelCached(channel) THEN closed \cup {channel}
                                           ELSE closed
    /\ live' = live \ {cur}
    /\ cur' = 0
    /\ last' = [NoCall EXCEPT !.op = "close",
                   !.calls = IF ChannelCached(channel)
                             THEN <<Call("channel.close", "", None),
                                    Call("client.close", "", None)>>
                             ELSE <<Call("client.close", "", None)>>]
    /\ UNCHANGED <<log_payload, sink, nConnects>>
    /\ UNCHANGED others

----------------------------------------------------------------------------
(* upload *)

\* f"{path_to_folder}{filename}": the remote file opened for writing
RemoteFile(path, filename) == path \o filename

\* mutant: the two placeholders of the message exchanged
UploadedMessage_Swapped(path, filename) ==
    path \o " uploaded successfully to " \o filename

\* result = f"{filename} uploaded successfully to {path_to_folder}"
UploadedMessage(path, filename) ==
    filename \o " uploaded successfully to " \o path

UploadFailedMessage(e) == "File upload failed. Error: " \o PyStr(e)
PathValidationFailedMessage(error) ==
    "Path validation failed. Error: " \o PyStr(error)

\* The `with self.channel.open(...) as remote_file: remote_file.write(...)`
\* statement: open, write, and the close of the file on leaving the block
\* (also when write raised).  exc is the exception that leaves the statement.
WriteFile(path, filename, content, openExc, writeExc, fcloseExc) ==
    IF openExc # None
    THEN [exc |-> openExc,
          calls |-> <<Call("open", RemoteFile(path, filename), openExc)>>]
    ELSE [exc |-> IF fcloseExc # None THEN fcloseExc ELSE writeExc,
          calls |-> <<Call("open", RemoteFile(path, filename), None),
                      Call("write", content, writeExc),
                      Call("file.close", "", fcloseExc)>>]

\* The body of upload() between the two clock readings, as a function of the
\* cached channel and of the transport outcomes: the result string, the
\* error_message the payload holds at the end and the transport calls made.
UploadBody(ch, path, filename, content, listExc, openExc, writeExc, fcloseExc) ==
    IF ChannelCached(ch)
    THEN LET v == ValidPath(ch, path, listExc)
             error == v.reason
             tried == ~Truthy(error)
             w == WriteFile(path, filename, content,
                            openExc, writeExc, fcloseExc)
             \* error_message after the `if not error` statement
             afterTry == IF tried /\ w.exc # None
                         THEN UploadFailedMessage(w.exc)
                         ELSE None
             \* the assignment that follows it is not under an else: it
             \* runs on every path through this branch and replaces afterTry
             afterAssign == PathValidationFailedMessage(error)
         IN  [result |-> IF tried /\ w.exc = None
                         THEN UploadedMessage(path, filename)
                         ELSE "",
              error_message |-> afterAssign,
              calls |-> IF tried THEN v.calls \o w.calls ELSE v.calls]
    ELSE [result |-> "",
          error_message |-> ConnectionNotEstablished,
          calls |-> <<>>]

upload(path, filename, content, listExc, openExc, writeExc, fcloseExc, elapsed) ==
    LET b == UploadBody(channel, path, filename, content,
                        listExc, openExc, writeExc, fcloseExc)
    IN  /\ log_payload' =
               [log_payload EXCEPT
                   !.request_repr.operation = OPERATIONS[1],
                   !.request_repr.remote_path = path,
                   !.request_repr.filename = filename,
                   !.error_message = b.error_message,
                   !.response_repr = DictRepr(b.result),
                   !.execution_time = elapsed]
        \* the call of __create_log at the end of upload is commented out
        /\ sink' = sink
        /\ prev' = last
        /\ last' = [NoCall EXCEPT !.op = "upload", !.path = path,
                                  !.filename = filename, !.content = content,
                                  !.result = b.result, !.calls = b.calls]
        /\ UNCHANGED <<channel, cur, live, closed, nConnects>>
        /\ UNCHANGED others

----------------------------------------------------------------------------
(* Two callers on one SFTP instance, without a lock.  A call is a sequence *)
(* of steps; each step makes one access to the shared self.channel or      *)
(* self.log_payload, or one call of the transport, together with the       *)
(* statements on locals around it.  Another caller may run between any two *)
(* steps.                                                                  *)

\* the variables a step on the payload or on the locals leaves alone
transport == <<sink, cur, live, closed, nConnects, last, prev, http>>

\* upload, lines 135-138: the call starts (result = "") and stores the
\* operation
UploadStoreOperation(c) ==
    /\ pc[c] = "idle"
    /\ log_payload' =
           [log_payload EXCEPT !.request_repr.operation = OPERATIONS[1]]
    /\ loc' = EnterCall(c)
    /\ pc' = [pc EXCEPT ![c] = "u139"]
    /\ UNCHANGED <<channel, transport>>

\* upload, line 139
UploadStorePath(c, path) ==
    /\ pc[c] = "u139"
    /\ log_payload' = [log_payload EXCEPT !.request_repr.remote_path = path]
    /\ pc' = [pc EXCEPT ![c] = "u140"]
    /\ UNCHANGED <<channel, loc, transport>>

\* upload, line 140
UploadStoreFilename(c, filename) ==
    /\ pc[c] = "u140"
    /\ log_payload' = [log_payload EXCEPT !.request_repr.filename = filename]
    /\ pc' = [pc EXCEPT ![c] = "u142"]
    /\ UNCHANGED <<channel, loc, transport>>

\* upload, line 142: `if self.channel`
UploadTestChannel(c) ==
    /\ pc[c] = "u142"
    /\ pc' = [pc EXCEPT ![c] = IF ChannelCached(channel) THEN "u143"
                                                         ELSE "u161"]
    /\ UNCHANGED <<channel, log_payload, loc, transport>>

\* upload, line 143, and is_valid_path, line 125: `if self.channel` of
\* is_valid_path; without a channel it returns its reason and upload goes on
\* to line 157
UploadValidateTest(c) ==
    /\ pc[c] = "u143"
    /\ IF ChannelCached(channel)
       THEN /\ loc' = loc
            /\ pc' = [pc EXCEPT ![c] = "v127"]
       ELSE /\ loc' = [loc EXCEPT ![c].error = ConnectionNotEstablished]
            /\ pc' = [pc EXCEPT ![c] = "u157"]
    /\ UNCHANGED <<channel, log_payload, transport>>

\* is_valid_path, line 127: self.channel is read for the listdir call
UploadValidateRead(c) ==
    /\ pc[c] = "v127"
    /\ loc' = [loc EXCEPT ![c].ch = channel]
    /\ pc' = [pc EXCEPT ![c] = "v127c"]
    /\ UNCHANGED <<channel, log_payload, transport>>

\* is_valid_path, lines 127-131, and upload, lines 143-145: listdir is
\* called on the channel read, the reason returned becomes `error`, and
\* `if not error` chooses between the write and line 157
UploadValidateList(c, path, listExc) ==
    /\ pc[c] = "v127c"
    /\ LET v == ValidPath(loc[c].ch, path, listExc)
       IN  /\ loc' = [loc EXCEPT ![c].error = v.reason, ![c].ch = 0]
           /\ pc' = [pc EXCEPT ![c] = IF Truthy(v.reason) THEN "u157"
                                                          ELSE "u147"]
    /\ UNCHANGED <<channel, log_payload, transport>>

\* upload, line 147: self.channel is read for the open call
UploadOpenRead(c) ==
    /\ pc[c] = "u147"
    /\ loc' = [loc EXCEPT ![c].ch = channel]
    /\ pc' = [pc EXCEPT ![c] = "u147c"]
    /\ UNCHANGED <<channel, log_payload, transport>>

\* upload, lines 147-149: the remote file is opened on the channel read; an
\* exception enters the except clause
UploadOpen(c, path, filename, openExc) ==
    /\ pc[c] = "u147c"
    /\ IF openExc = None
       THEN /\ loc' = [loc EXCEPT ![c].ch = 0]
            /\ pc' = [pc EXCEPT ![c] = "u150"]
       ELSE /\ loc' = [loc EXCEPT ![c].ch = 0, ![c].exc = openExc]
            /\ pc' = [pc EXCEPT ![c] = "u154"]
    /\ UNCHANGED <<channel, log_payload, transport>>

\* upload, line 150: the content is written; an exception is pending while
\* the with statement closes the file
UploadWriteContent(c, content, writeExc) ==
    /\ pc[c] = "u150"
    /\ loc' = [loc EXCEPT ![c].exc = writeExc]
    /\ pc' = [pc EXCEPT ![c] = "u150x"]
    /\ UNCHANGED <<channel, log_payload, transport>>

\* upload, lines 147-153: the with statement closes the file, also when the
\* write raised, and an exception of the close replaces the pending one;
\* without an exception result is assigned
UploadCloseFile(c, path, filename, fcloseExc) ==
    /\ pc[c] = "u150x"
    /\ LET e == IF fcloseExc # None THEN fcloseExc ELSE loc[c].exc
       IN  IF e = None
           THEN /\ loc' = [loc EXCEPT
                              ![c].result = UploadedMessage(path, filename)]
                /\ pc' = [pc EXCEPT ![c] = "u157"]
           ELSE /\ loc' = [loc EXCEPT ![c].exc = e]
                /\ pc' = [pc EXCEPT ![c] = "u154"]
    /\ UNCHANGED <<channel, log_payload, transport>>

\* upload, lines 154-156: the except clause stores its message
UploadStoreWriteError(c) ==
    /\ pc[c] = "u154"
    /\ log_payload' = [log_payload EXCEPT
                          !.error_message = UploadFailedMessage(loc[c].exc)]
    /\ loc' = [loc EXCEPT ![c].exc = None]
    /\ pc' = [pc EXCEPT ![c] = "u157"]
    /\ UNCHANGED <<channel, transport>>

\* upload, lines 157-159: the store that every path of the branch runs
UploadStorePathError(c) ==
    /\ pc[c] = "u157"
    /\ log_payload' =
           [log_payload EXCEPT
               !.error_message = PathValidationFailedMessage(loc[c].error)]
    /\ pc' = [pc EXCEPT ![c] = "u165"]
    /\ UNCHANGED <<channel, loc, transport>>

\* upload, line 161
UploadStoreNoConnection(c) ==
    /\ pc[c] = "u161"
    /\ log_payload' =
           [log_payload EXCEPT !.error_message = ConnectionNotEstablished]
    /\ pc' = [pc EXCEPT ![c] = "u165"]
    /\ UNCHANGED <<channel, loc, transport>>

\* upload, lines 163-165
UploadStoreResponse(c) ==
    /\ pc[c] = "u165"
    /\ log_payload' =
           [log_payload EXCEPT !.response_repr = DictRepr(loc[c].result)]
    /\ pc' = [pc EXCEPT ![c] = "u166"]
    /\ UNCHANGED <<channel, loc, transport>>

\* upload, line 166: the time measured at line 163 is stored
UploadStoreTime(c, elapsed) ==
    /\ pc[c] = "u166"
    /\ log_payload' = [log_payload EXCEPT !.execution_time = elapsed]
    /\ pc' = [pc EXCEPT ![c] = "u170"]
    /\ UNCHANGED <<channel, loc, transport>>

\* upload, line 170: the call returns result; the payload of the instance
\* now is the one finalized for this upload
UploadReturn(c) ==
    /\ pc[c] = "u170"
    /\ loc' = [loc EXCEPT ![c].final = log_payload]
    /\ pc' = [pc EXCEPT ![c] = "u_done"]
    /\ UNCHANGED <<channel, log_payload, transport>>

\* connect, line 104: `if not self.channel`; with a channel cached the call
\* goes on to the return statement
ConnectTestChannel(c) ==
    /\ pc[c] = "idle"
    /\ loc' = EnterCall(c)
    /\ pc' = [pc EXCEPT ![c] = IF ChannelCached(channel) THEN "c122"
                                                         ELSE "c105"]
    /\ UNCHANGED <<channel, log_payload, transport>>

\* connect, lines 105-111: client.connect; a session the client already
\* held is not released
ConnectClient(c, connExc) ==
    /\ pc[c] = "c105"
    /\ nConnects < MaxConnects
    /\ nConnects' = nConnects + 1
    /\ IF connExc = None
       THEN /\ cur' = nConnects + 1
            /\ live' = live \cup {nConnects + 1}
            /\ loc' = [loc EXCEPT ![c].sess = nConnects + 1]
            /\ pc' = [pc EXCEPT ![c] = "c112"]
       ELSE /\ UNCHANGED <<cur, live>>
            /\ loc' = [loc EXCEPT ![c].exc = connExc]
            /\ pc' = [pc EXCEPT ![c] = "c116"]
    /\ UNCHANGED <<channel, log_payload, sink, closed, last, prev, http>>

\* connect, line 112, right-hand side: self.client.open_sftp() opens the
\* channel over the session the shared client holds now, which is the one of
\* the latest client.connect, this caller's or the other's
ConnectOpenSftp(c, sftpExc) ==
    /\ pc[c] = "c112"
    /\ IF sftpExc = None
       THEN /\ loc' = [loc EXCEPT ![c].opened = cur]
            /\ pc' = [pc EXCEPT ![c] = "c112s"]
       ELSE /\ loc' = [loc EXCEPT ![c].exc = sftpExc]
            /\ pc' = [pc EXCEPT ![c] = "c116"]
    /\ UNCHANGED <<channel, log_payload, transport>>

\* connect, lines 112-114: the channel is stored in self.channel, whatever
\* another caller has stored there meanwhile, and the call logs
ConnectStoreChannel(c) ==
    /\ pc[c] = "c112s"
    /\ channel' = loc[c].opened
    /\ pc' = [pc EXCEPT ![c] = "c122"]
    /\ UNCHANGED <<log_payload, loc, transport>>

\* connect, lines 115-120: the except clause stores its message and calls
\* __create_log, which the class does not have
ConnectStoreError(c) ==
    /\ pc[c] = "c116"
    /\ log_payload' =
           [log_payload EXCEPT
               !.error_message = ConnectionFailedMessage(loc[c].exc)]
    /\ loc' = [loc EXCEPT ![c].exc = IF HasCreateLog THEN loc[c].exc
                                     ELSE "AttributeError",
                          ![c].chan = 0]
    /\ pc' = [pc EXCEPT ![c] = "c_done"]
    /\ UNCHANGED <<channel, transport>>

\* connect, line 122: `return self.channel, None` reads self.channel again
ConnectReturn(c) ==
    /\ pc[c] = "c122"
    /\ loc' = [loc EXCEPT ![c].chan = channel]
    /\ pc' = [pc EXCEPT ![c] = "c_done"]
    /\ UNCHANGED <<channel, log_payload, transport>>

\* the caller has its call's outcome and may make another call
Return(c) ==
    /\ pc[c] \in {"u_done", "c_done"}
    /\ pc' = [pc EXCEPT ![c] = "idle"]
    /\ loc' = [loc EXCEPT ![c] = NoLocals]
    /\ UNCHANGED <<channel, log_payload, transport>>

----------------------------------------------------------------------------
Next ==
    \/ \E connExc \in Outcomes, sftpExc \in Outcomes : connect(connExc, sftpExc)
    \/ \E path \in Paths, listExc \in Outcomes : is_valid_path(path, listExc)
    \/ \E path \in Paths, filename \in Filenames, content \in Contents,
          listExc \in Outcomes, openExc \in Outcomes, writeExc \in Outcomes,
          fcloseExc \in Outcomes, elapsed \in 0..MaxElapsed :
            upload(path, filename, content, listExc, openExc, writeExc,
                   fcloseExc, elapsed)
    \/ close

Spec == Init /\ [][Next]_vars

\* the HTTP client on its own: an instance with any service name, and any
\* sequence of requests on it
InitHTTP ==
    /\ InitSFTP
    /\ \E sn \in ServiceNames : http = NoRequest(sn)
    /\ InitCallers

NextHTTP ==
    \E method \in Methods, url \in Urls, sendExc \in HttpOutcomes,
       status \in StatusCodes, jsonExc \in HttpOutcomes, body \in Bodies,
       elapsed \in 0..MaxElapsed :
         request(method, url, sendExc, status, jsonExc, body, elapsed)

SpecHTTP == InitHTTP /\ [][NextHTTP]_vars

\* two callers sharing one SFTP instance, each making its own upload
NextConc ==
    \E c \in Callers :
        \/ UploadStoreOperation(c)
        \/ UploadStorePath(c, UploadArgs[c].path)
        \/ UploadStoreFilename(c, UploadArgs[c].filename)
        \/ UploadTestChannel(c)
        \/ UploadValidateTest(c)
        \/ UploadValidateRead(c)
        \/ \E listExc \in Outcomes :
               UploadValidateList(c, UploadArgs[c].path, listExc)
        \/ UploadOpenRead(c)
        \/ \E openExc \in Outcomes :
               UploadOpen(c, UploadArgs[c].path, UploadArgs[c].filename,
                          openExc)
        \/ \E content \in Contents, writeExc \in Outcomes :
               UploadWriteContent(c, content, writeExc)
        \/ \E fcloseExc \in Outcomes :
               UploadCloseFile(c, UploadArgs[c].path, UploadArgs[c].filename,
                               fcloseExc)
        \/ UploadStoreWriteError(c)
        \/ UploadStorePathError(c)
        \/ UploadStoreNoConnection(c)
        \/ UploadStoreResponse(c)
        \/ \E elapsed \in 0..MaxElapsed : UploadStoreTime(c, elapsed)
        \/ UploadReturn(c)
        \/ ConnectTestChannel(c)
        \/ \E connExc \in Outcomes : ConnectClient(c, connExc)
        \/ \E sftpExc \in Outcomes : ConnectOpenSftp(c, sftpExc)
        \/ ConnectStoreChannel(c)
        \/ ConnectStoreError(c)
        \/ ConnectReturn(c)
        \/ Return(c)

SpecConc == Init /\ [][NextConc]_vars

----------------------------------------------------------------------------
(* Vocabulary of the properties *)

\* the transport calls named `name` in a call sequence
CallsNamed(calls, name) == {i \in 1..Len(calls) : calls[i][1] = name}

\* every transport call of the sequence returned
AllReturned(calls) == \A i \in 1..Len(calls) : calls[i][3] = None

\* some transport call of the sequence raised
SomeRaised(calls) == \E i \in 1..Len(calls) : calls[i][3] # None

\* the exception of the transport call that ended the sequence
RaisedExc(calls) == calls[Len(calls)][3]

\* the call ran with a channel cached on the instance (upload and
\* is_valid_path list the directory exactly when a channel is cached)
RanConnected(c) == CallsNamed(c.calls, "listdir") # {}

\* an upload whose listing succeeded and whose open, write and file close
\* all succeeded
UploadWritten(c) ==
    /\ c.op = "upload"
    /\ Len(c.calls) = 4
    /\ AllReturned(c.calls)

\* an upload whose listing succeeded and whose open, write or file close raised
UploadWriteRaised(c) ==
    /\ c.op = "upload"
    /\ Len(c.calls) >= 2
    /\ c.calls[1][3] = None
    /\ SomeRaised(c.calls)

\* an upload, with a channel cached, whose listing raised
UploadPathInvalid(c) ==
    /\ c.op = "upload"
    /\ Len(c.calls) >= 1
    /\ c.calls[1] = Call("listdir", c.path, c.calls[1][3])
    /\ c.calls[1][3] # None

----------------------------------------------------------------------------
(* C1: after close() returns, from any state, the instrumentor holds no    *)
(* cached channel (it is Disconnected) and close() has not raised; this    *)
(* includes a second close() in a row.                                     *)
C1_CloseEndsDisconnected ==
    last.op = "close" => (last.raised = None /\ ~ChannelCached(channel))

(* C2: a connect() that follows a close() which released a cached channel  *)
(* issues a new transport connect and, when it returns a channel, that     *)
(* channel is not one that close() released.                               *)
C2_ReconnectAfterClose ==
    (/\ prev.op = "close"
     /\ CallsNamed(prev.calls, "channel.close") # {}
     /\ last.op = "connect")
    => /\ Cardinality(CallsNamed(last.calls, "connect")) = 1
       /\ (last.raised = None /\ last.chan # 0) => last.chan \notin closed

(* C3: a connect() whose transport connect or channel opening raises e     *)
(* does not raise: it returns (None, e), leaves no channel cached, and     *)
(* records an audit entry whose error_message describes the failure.       *)
C3_FailedConnectReturnsError ==
    (last.op = "connect" /\ SomeRaised(last.calls))
    => /\ last.raised = None
       /\ last.chan = 0
       /\ last.err = RaisedExc(last.calls)
       /\ ~ChannelCached(channel)
       /\ sink # <<>>
       /\ sink[Len(sink)].error_message =
              "SFTP connection failed. Error: " \o RaisedExc(last.calls)

(* C4: no step issues a transport connect while a session opened earlier   *)
(* by the instrumentor has not been released.                              *)
C4_NoConnectWhileSessionLive ==
    [][nConnects' > nConnects => live = {}]_vars

(* C5: of two connect() calls in a row, the first of which returned a      *)
(* channel, the second returns that same channel and makes no transport    *)
(* call, so the two together issue exactly one transport connect when the  *)
(* first had to open the connection (and none when it reused it).          *)
C5_ConnectTwiceReuses ==
    (/\ prev.op = "connect" /\ prev.raised = None /\ prev.chan # 0
     /\ last.op = "connect")
    => /\ last.raised = None
       /\ last.chan = prev.chan
       /\ last.err = None
       /\ last.calls = <<>>
       /\ Cardinality(CallsNamed(prev.calls, "connect"))
            = (IF prev.calls = <<>> THEN 0 ELSE 1)

C5_Witness ==
    /\ prev.op = "connect" /\ prev.raised = None /\ prev.chan # 0
    /\ CallsNamed(prev.calls, "connect") # {}
    /\ last.op = "connect"

(* C6: after an upload() whose path validation and write both succeeded,   *)
(* the payload carries the success message and no error: error_message is  *)
(* not populated.                                                          *)
C6_SuccessfulUploadHasNoError ==
    UploadWritten(last)
    => /\ log_payload.response_repr.message # ""
       /\ log_payload.error_message = ""

(* C7: after an upload() whose path validation succeeded and whose open    *)
(* or write raised e, error_message is the upload-failure message for e    *)
(* and upload() returned the empty result.                                 *)
C7_WriteFailureIsUploadFailure ==
    UploadWriteRaised(last)
    => /\ log_payload.error_message =
              "File upload failed. Error: " \o RaisedExc(last.calls)
       /\ last.result = ""

(* C8: after an upload() with a cached channel whose path validation       *)
(* failed, no remote file was opened or written, upload() returned the     *)
(* empty result, error_message is the path-validation failure message and  *)
(* the payload carries no success message.                                 *)
C8_InvalidPathUpload ==
    UploadPathInvalid(last)
    => /\ Len(last.calls) = 1
       /\ last.raised = None
       /\ last.result = ""
       /\ log_payload.error_message =
              "Path validation failed. Error: Folder(" \o last.path
                  \o ") not found."
       /\ log_payload.response_repr.message = ""

C8_Witness == UploadPathInvalid(last) /\ ChannelCached(channel)

(* C9: an upload() on an instrumentor with no cached channel makes no      *)
(* transport call, leaves error_message "Connection not established" and   *)
(* returns the empty result.                                               *)
C9_UploadWithoutConnection ==
    (last.op = "upload" /\ channel = 0)
    => /\ last.calls = <<>>
       /\ last.raised = None
       /\ last.result = ""
       /\ log_payload.error_message = "Connection not established"

\* an upload with no channel cached, right after a connect() that failed
C9_Witness ==
    /\ last.op = "upload" /\ channel = 0
    /\ prev.op = "connect" /\ SomeRaised(prev.calls)

(* C10: an upload() whose path validation and write both succeeded opened  *)
(* the remote file remotePath + filename, wrote the content to it,         *)
(* returned "<filename> uploaded successfully to <remotePath>" and left    *)
(* response_repr = {"message": that message}.                              *)
C10_SuccessfulUploadResult ==
    UploadWritten(last)
    => /\ last.calls[1] = <<"listdir", last.path, None>>
       /\ last.calls[2] = <<"open", last.path \o last.filename, None>>
       /\ last.calls[3] = <<"write", last.content, None>>
       /\ last.raised = None
       /\ last.result =
              last.filename \o " uploaded successfully to " \o last.path
       /\ log_payload.response_repr =
              [type |-> "dict", message |-> last.result]

C10_Witness ==
    /\ UploadWritten(last)
    /\ last.path = "/data/" /\ last.filename = "a.txt"
    /\ last.content = "hello"
    /\ last.result = "a.txt uploaded successfully to /data/"

(* C11: is_valid_path on an instrumentor with no cached channel returns    *)
(* (False, "Connection not established") and makes no transport call.      *)
C11_ValidPathWithoutConnection ==
    (last.op = "is_valid_path" /\ channel = 0)
    => /\ last.raised = None
       /\ last.valid = FALSE
       /\ last.err = "Connection not established"
       /\ last.calls = <<>>

C11_Witness == last.op = "is_valid_path" /\ channel = 0

(* C12: with a channel cached is_valid_path never raises: it returns       *)
(* (True, None) when the listing returns, and (False, reason) when the     *)
(* listing raises, with a "not found" reason that is not the reason given  *)
(* for a missing connection.                                               *)
C12_ValidPathConnected ==
    (last.op = "is_valid_path" /\ channel # 0)
    => /\ last.raised = None
       /\ last.calls # <<>>
       /\ AllReturned(last.calls) => (last.valid = TRUE /\ last.err = None)
       /\ SomeRaised(last.calls)
            => /\ last.valid = FALSE
               /\ last.err = "Folder(" \o last.path \o ") not found."
               /\ last.err # "Connection not established"

\* a listing that raised, on a cached channel
C12_Witness ==
    /\ last.op = "is_valid_path" /\ channel # 0
    /\ SomeRaised(last.calls)

(* C16 (SFTP half): every upload() call emits exactly one audit record:    *)
(* a step that completes an upload adds one record to the sink.            *)
C16_UploadEmitsOneRecord ==
    [][last'.op = "upload" => Len(sink') = Len(sink) + 1]_vars

(* C18: a direct is_valid_path call leaves the cached channel, the         *)
(* transport sessions, the audit payload and the sink unchanged; it makes  *)
(* at most one transport call, a listing.                                  *)
C18_ValidPathFrame ==
    [][last'.op = "is_valid_path"
        => /\ UNCHANGED <<channel, cur, live, closed, nConnects,
                          log_payload, sink>>
           /\ Len(last'.calls) <= 1
           /\ \A i \in 1..Len(last'.calls) : last'.calls[i][1] = "listdir"
      ]_vars

\* is_valid_path called after an upload has filled the payload, on a cached
\* channel, with the listing raising
C18_Witness ==
    /\ last.op = "is_valid_path" /\ SomeRaised(last.calls)
    /\ prev.op = "upload"
    /\ log_payload.request_repr.operation = "upload"

(* C20: the payload recorded for a failed connect() depends only on the    *)
(* configuration and on that call's outcome: apart from its own            *)
(* error_message it holds what the constructor put there, nothing of an    *)
(* earlier call.                                                           *)
C20_FailedConnectPayloadIsFresh ==
    (last.op = "connect" /\ SomeRaised(last.calls))
    => log_payload =
           [InitPayload EXCEPT !.error_message =
               "SFTP connection failed. Error: " \o RaisedExc(last.calls)]

----------------------------------------------------------------------------
(* Vocabulary of the HTTP properties *)

\* the transport call of the last request returned and the decoding raised
DecodeFailed == http.op = "request" /\ http.sendExc = None /\ http.jsonExc # None

\* the transport call of the last request raised
TransportFailed == http.op = "request" /\ http.sendExc # None

(* C13: when the transport call succeeds and decoding the body fails, the  *)
(* call is recorded as a success: response_repr is populated,              *)
(* error_message is not, and request() returns the response.               *)
C13_DecodeFailureIsSuccess ==
    DecodeFailed
    => /\ http.raised = None
       /\ http.ret.present
       /\ http.payload.response_repr # Absent
       /\ http.payload.error_message = Absent

(* C14: when the transport raises, whatever the description of the         *)
(* exception, the record of the call has error_message populated and       *)
(* response_repr not populated.                                            *)
C14_TransportFailureRecorded ==
    TransportFailed
    => /\ http.payload.error_message # Absent
       /\ http.payload.response_repr = Absent

(* C15: request() never raises: it returns the response when the           *)
(* transport succeeded and no response when the transport raised.          *)
C15_RequestNeverRaises ==
    http.op = "request"
    => /\ http.raised = None
       /\ http.ret.present <=> http.sendExc = None

----------------------------------------------------------------------------
(* C19: the instance is safe only under serialization, and races without  *)
(* it.  When no call of the other caller has overlapped an upload, the     *)
(* payload finalized for it (the payload of the instance as the upload     *)
(* returns) carries that upload's own remote_path, filename and result;    *)
(* and a caller issues a transport connect while a channel is cached only  *)
(* when its connect has overlapped a call of the other caller.  So a       *)
(* payload carrying the other call's remote_path, filename or outcome, and *)
(* a second connection opened beside a cached channel, are effects of the  *)
(* interleaving alone; C19_Witness is a reachable state that has them.     *)
C19_MixUpOnlyWhenCallsOverlap ==
    [][\A c \in Callers :
          /\ (pc[c] = "u170" /\ pc'[c] = "u_done" /\ ~loc[c].overlap)
             => /\ loc'[c].final.request_repr =
                       [host |-> Host, operation |-> OPERATIONS[1],
                        remote_path |-> UploadArgs[c].path,
                        filename |-> UploadArgs[c].filename]
                /\ loc'[c].final.response_repr = DictRepr(loc[c].result)
          /\ (pc[c] = "c105" /\ pc'[c] # "c105" /\ channel # 0)
             => loc[c].overlap
      ]_vars

\* The race: caller A is back from its upload with its own success message,
\* and the payload finalized for it names the remote path of caller B with
\* the file of caller A and has the empty result of caller B as response;
\* and two transport sessions are open for the one instance, whose cached
\* channel belongs to the session the client no longer holds.
C19_Witness ==
    /\ pc["A"] = "u_done"
    /\ loc["A"].result =
           UploadedMessage(UploadArgs["A"].path, UploadArgs["A"].filename)
    /\ loc["A"].final.request_repr.remote_path = UploadArgs["B"].path
    /\ loc["A"].final.request_repr.filename = UploadArgs["A"].filename
    /\ loc["A"].final.response_repr = DictRepr("")
    /\ pc["B"] \in {"u166", "u170", "u_done"}
    /\ Cardinality(live) = 2
    /\ ChannelCached(channel)
    /\ channel # cur

====
